---- MODULE Spec2Model ----
(***************************************************************************)
(* Model of the two scrapers of this repository.                           *)
(*                                                                         *)
(*   task_1/scraper.py  thread-parallel pipeline: discovery tasks put      *)
(*                      products on product_queue, product_worker threads  *)
(*                      enrich them and put them on db_queue, one          *)
(*                      db_worker thread writes them to sqlite.            *)
(*   task_2/scraper.py  process-parallel variant: ProcessManager splits    *)
(*                      the links, one process per chunk, results come     *)
(*                      back over one manager queue.                       *)
(*                                                                         *)
(* Each part has its own specification over the shared variables: Spec     *)
(* (the task_1 pipeline), SpecRetry (the retry decorator), SpecPage        *)
(* (pagination of a subcategory), SpecWriter (two runs of the db_worker),  *)
(* SpecSplit (_split_links) and SpecProc (ProcessManager.run).             *)
(***************************************************************************)
EXTENDS Integers, Sequences, FiniteSets, TLC

----------------------------------------------------------------------------
(* Bounds of the model and constants of the program                        *)

\* products the stub site holds, spread over the subcategories
NumItems == 2
\* subcategories (one collect_products task each)
NumSubcats == 2
\* product_worker threads (cpu_count() * 2 in the program)
NumThreads == 2
\* ThreadPoolExecutor(max_workers=3)
MaxPoolWorkers == 3

Items == 1..NumItems
Subcats == 1..NumSubcats
Workers == 1..NumThreads

\* STOP_SIGNAL of task_1: a value no product is identical to
STOP_SIGNAL == [stop |-> TRUE]
\* what fetch_page returns when the retries are exhausted
None == [none |-> TRUE]
\* what fetch_page returns for the homepage and for a category page
HomePage == [page |-> "home"]
CategoryPage == [page |-> "category"]
\* the local variable `product` of a thread that holds no product
NoProduct == [idle |-> TRUE]

\* the sentinel extract_price_data uses for a missing value
NA == "N/A"

----------------------------------------------------------------------------
(* State of the thread-parallel pipeline (task_1)                          *)

VARIABLES
    mainPc,         \* where main() is
    catIdx,         \* main's position in its loop over the categories
    categories,     \* what get_category_urls returned
    taskPc,         \* per subcategory: the collect_products future
    taskIdx,        \* per subcategory: how many of its products are queued
    product_queue,  \* queue.Queue(): the products waiting, head first
    pqUnfinished,   \* product_queue.unfinished_tasks
    db_queue,       \* queue.Queue(): the records waiting, head first
    dbUnfinished,   \* db_queue.unfinished_tasks
    started,        \* how many product_worker threads main has started
    stopsPut,       \* how many STOP_SIGNALs main has put on product_queue
    wPc,            \* per product_worker: where it is
    wProduct,       \* per product_worker: its local variable `product`
    dbPc,           \* where db_worker is
    dbProduct,      \* db_worker's local variable `product`
    storage,        \* the rows of table products, in insertion order
    log,            \* what the pipeline logged that the claims read
    connections,    \* how many sqlite3 connections to DB_FILE are open
    hist            \* history: the products put on product_queue (enq), how
                    \* often each was taken from it (deq), the records put
                    \* on db_queue in order (put), the products whose detail
                    \* page could not be fetched (failed), the records
                    \* db_worker took from db_queue in order (got)

pipeVars == <<mainPc, catIdx, categories, taskPc, taskIdx, product_queue,
              pqUnfinished, db_queue, dbUnfinished, started, stopsPut, wPc,
              wProduct, dbPc, dbProduct, storage, log, connections, hist>>

(* State of one call of the retry wrapper around fetch_page                *)
VARIABLES
    retry           \* the call: its arguments, its locals, what it logged

(* State of one call of get_products_from_subcategory                      *)
VARIABLES
    pager           \* the call: the stub source, its locals, its requests

(* State of a second run of the writer over the same records               *)
VARIABLES
    writer          \* which run this is, the records, the first run's table

(* State of the process-parallel variant (task_2)                          *)
VARIABLES
    num_processes,  \* ProcessManager.num_processes
    book_links,     \* ProcessManager.book_links
    link_chunks,    \* ProcessManager.link_chunks
    mgrPc,          \* where ProcessManager.run() is
    mgrIdx,         \* run's position in its loops over self.processes
    mqueue,         \* ProcessManager.queue, the manager queue, head first
    all_data,       \* collect_data's local all_data
    stop_signals,   \* collect_data's local stop_signals
    results,        \* what run() returned
    terminated,     \* the processes run() terminated by force
    pPc,            \* per worker process: where it is
    pIdx,           \* per worker process: position in `for link in links`
    pData           \* per worker process: scrape_books' local data

procVars == <<num_processes, book_links, link_chunks, mgrPc, mgrIdx, mqueue,
              all_data, stop_signals, results, terminated, pPc, pIdx, pData>>

vars == <<pipeVars, retry, pager, writer, procVars>>

----------------------------------------------------------------------------
(* The stub site and the pure functions of task_1                          *)

\* the subcategory a product is listed under
ItemSub(i) == ((i - 1) % NumSubcats) + 1
\* the name a product carries; products 1 and 2 share one, 3 and 4, ...
ItemName(i) == (i + 1) \div 2

\* the dict get_products_from_subcategory builds for a product card
Product(i) == [id |-> i, name |-> ItemName(i), category |-> ItemSub(i)]

RECURSIVE ProductsFrom(_, _)
ProductsFrom(s, i) ==
    IF i > NumItems THEN <<>>
    ELSE IF ItemSub(i) = s THEN <<Product(i)>> \o ProductsFrom(s, i + 1)
    ELSE ProductsFrom(s, i + 1)

\* the list collect_products receives for subcategory s
ProductsOf(s) == ProductsFrom(s, 1)

\* the detail pages the stub site serves: which of the two price elements
\* extract_price_data looks for the page holds
DetailPages == {[range |-> TRUE, median |-> TRUE]}

\* what fetch_page can return for a detail page
DetailFetchResults == {None} \cup DetailPages

\* extract_price_data, given what fetch_page returned
ExtractPriceData(content) ==
    IF content = None
    THEN [price_range |-> NA, median_price |-> NA]
    ELSE [price_range |-> IF content.range THEN "range" ELSE NA,
          median_price |-> IF content.median THEN "median" ELSE NA]

\* product.update(price_data)
Update(product, price_data) ==
    [id |-> product.id, name |-> product.name, category |-> product.category,
     price_range |-> price_data.price_range,
     median_price |-> price_data.median_price]

\* the columns of table products that carry a uniqueness constraint:
\* id INTEGER PRIMARY KEY AUTOINCREMENT, and no other
UniqueColumns == {"id"}

\* the row INSERT INTO products builds: AUTOINCREMENT gives the next id
NewRow(rows, product) ==
    [id |-> Len(rows) + 1, name |-> product.name,
     category |-> product.category, price_range |-> product.price_range,
     median_price |-> product.median_price]

\* sqlite raises IntegrityError when a constrained column repeats
IntegrityError(rows, row) ==
    \E k \in 1..Len(rows) : \E c \in UniqueColumns : rows[k][c] = row[c]

\* save_to_db(product) on the table `rows`; fault: sqlite raised something
\* other than IntegrityError. Gives the outcome and the table afterwards.
SaveToDb(rows, product, fault) ==
    LET row == NewRow(rows, product) IN
    IF fault THEN [outcome |-> "Fault", rows |-> rows]
    ELSE IF IntegrityError(rows, row)
    THEN [outcome |-> "AlreadyExists", rows |-> rows]
    ELSE [outcome |-> "Inserted", rows |-> Append(rows, row)]

----------------------------------------------------------------------------
(* The thread-parallel pipeline: main, collect_products, product_worker,   *)
(* db_worker                                                               *)

offPipe == <<retry, pager, writer, procVars>>

InitPipe ==
    /\ mainPc = "init_db"
    /\ catIdx = 1
    /\ categories = <<>>
    /\ taskPc = [s \in Subcats |-> "unsubmitted"]
    /\ taskIdx = [s \in Subcats |-> 0]
    /\ product_queue = <<>>
    /\ pqUnfinished = 0
    /\ db_queue = <<>>
    /\ dbUnfinished = 0
    /\ started = 0
    /\ stopsPut = 0
    /\ wPc = [w \in Workers |-> "unstarted"]
    /\ wProduct = [w \in Workers |-> NoProduct]
    /\ dbPc = "unstarted"
    /\ dbProduct = NoProduct
    /\ storage = <<>>
    /\ log = <<>>
    /\ connections = 0
    /\ hist = [enq |-> {}, deq |-> [i \in Items |-> 0], put |-> <<>>,
               failed |-> {}, got |-> <<>>]

\* main: init_db(). CREATE TABLE IF NOT EXISTS keeps the rows there are.
MainInitDb ==
    /\ mainPc = "init_db"
    /\ mainPc' = "get_categories"
    /\ UNCHANGED <<catIdx, categories, taskPc, taskIdx, product_queue,
                   pqUnfinished, db_queue, dbUnfinished, started, stopsPut,
                   wPc, wProduct, dbPc, dbProduct, storage, log, connections,
                   hist>>
    /\ UNCHANGED offPipe

\* get_category_urls: [] when the homepage cannot be fetched, else the
\* categories found (each stands for one subcategory of the stub site)
GetCategoryUrls(home_page_content) ==
    IF home_page_content = None THEN <<>> ELSE [c \in Subcats |-> c]

\* main: categories = get_category_urls()
MainGetCategories ==
    /\ mainPc = "get_categories"
    /\ \E home_page_content \in {None, HomePage} :
           categories' = GetCategoryUrls(home_page_content)
    /\ catIdx' = 1
    /\ mainPc' = "submit"
    /\ UNCHANGED <<taskPc, taskIdx, product_queue, pqUnfinished, db_queue,
                   dbUnfinished, started, stopsPut, wPc, wProduct, dbPc,
                   dbProduct, storage, log, connections,
                   hist>>
    /\ UNCHANGED offPipe

\* main: one turn of `for category_name, category_url in categories`:
\* a category whose page cannot be fetched is skipped, else
\* executor.submit(collect_products, ...) for its subcategory
MainSubmit ==
    /\ mainPc = "submit"
    /\ catIdx <= Len(categories)
    /\ \E category_content \in {None, CategoryPage} :
           taskPc' = IF category_content = None THEN taskPc
                     ELSE [taskPc EXCEPT ![categories[catIdx]] = "pending"]
    /\ catIdx' = catIdx + 1
    /\ UNCHANGED <<mainPc, categories, taskIdx, product_queue, pqUnfinished,
                   db_queue, dbUnfinished, started, stopsPut, wPc, wProduct,
                   dbPc, dbProduct, storage, log, connections,
                   hist>>
    /\ UNCHANGED offPipe

\* the executor runs a pending future when one of its threads is free
TaskStart(s) ==
    /\ taskPc[s] = "pending"
    /\ Cardinality({t \in Subcats : taskPc[t] = "running"}) < MaxPoolWorkers
    /\ taskPc' = [taskPc EXCEPT ![s] = "running"]
    /\ UNCHANGED <<mainPc, catIdx, categories, taskIdx, product_queue,
                   pqUnfinished, db_queue, dbUnfinished, started, stopsPut,
                   wPc, wProduct, dbPc, dbProduct, storage, log, connections,
                   hist>>
    /\ UNCHANGED offPipe

\* queue.Queue.put(item): the item joins the tail of the queue
QueuePut(q, item) == Append(q, item)

\* a get that reads the head and leaves it in the queue
QueueRestKeepsHead(q) == q

\* queue.Queue.get(): what is left once the head is taken
QueueRest(q) == Tail(q)

\* collect_products: product_queue.put(product) for the next product
TaskPut(s) ==
    /\ taskPc[s] = "running"
    /\ taskIdx[s] < Len(ProductsOf(s))
    /\ LET product == ProductsOf(s)[taskIdx[s] + 1] IN
           /\ product_queue' = QueuePut(product_queue, product)
           /\ hist' = [hist EXCEPT !.enq = @ \cup {product.id}]
    /\ pqUnfinished' = pqUnfinished + 1
    /\ taskIdx' = [taskIdx EXCEPT ![s] = @ + 1]
    /\ UNCHANGED <<mainPc, catIdx, categories, taskPc, db_queue, dbUnfinished,
                   started, stopsPut, wPc, wProduct, dbPc, dbProduct, storage,
                   log, connections>>
    /\ UNCHANGED offPipe

\* collect_products returns: the future is done
TaskFinish(s) ==
    /\ taskPc[s] = "running"
    /\ taskIdx[s] = Len(ProductsOf(s))
    /\ taskPc' = [taskPc EXCEPT ![s] = "done"]
    /\ UNCHANGED <<mainPc, catIdx, categories, taskIdx, product_queue,
                   pqUnfinished, db_queue, dbUnfinished, started, stopsPut,
                   wPc, wProduct, dbPc, dbProduct, storage, log, connections,
                   hist>>
    /\ UNCHANGED offPipe

\* a main that leaves the executor without waiting for its futures
MainWaitFuturesNoWait ==
    /\ mainPc = "submit"
    /\ catIdx > Len(categories)
    /\ mainPc' = "start_threads"
    /\ UNCHANGED <<catIdx, categories, taskPc, taskIdx, product_queue,
                   pqUnfinished, db_queue, dbUnfinished, started, stopsPut,
                   wPc, wProduct, dbPc, dbProduct, storage, log, connections,
                   hist>>
    /\ UNCHANGED offPipe

\* main: the loop is over, future.result() of every future has returned
\* and the executor is shut down
MainWaitFutures ==
    /\ mainPc = "submit"
    /\ catIdx > Len(categories)
    /\ \A s \in Subcats : taskPc[s] \in {"unsubmitted", "done"}
    /\ mainPc' = "start_threads"
    /\ UNCHANGED <<catIdx, categories, taskPc, taskIdx, product_queue,
                   pqUnfinished, db_queue, dbUnfinished, started, stopsPut,
                   wPc, wProduct, dbPc, dbProduct, storage, log, connections,
                   hist>>
    /\ UNCHANGED offPipe

\* main: threading.Thread(target=product_worker).start(), one per turn
MainStartThread ==
    /\ mainPc = "start_threads"
    /\ started < NumThreads
    /\ started' = started + 1
    /\ wPc' = [wPc EXCEPT ![started + 1] = "get"]
    /\ UNCHANGED <<mainPc, catIdx, categories, taskPc, taskIdx, product_queue,
                   pqUnfinished, db_queue, dbUnfinished, stopsPut, wProduct,
                   dbPc, dbProduct, storage, log, connections,
                   hist>>
    /\ UNCHANGED offPipe

\* main: db_thread.start(), then on to product_queue.join()
MainStartDb ==
    /\ mainPc = "start_threads"
    /\ started = NumThreads
    /\ dbPc' = "get"
    /\ mainPc' = "join_products"
    /\ UNCHANGED <<catIdx, categories, taskPc, taskIdx, product_queue,
                   pqUnfinished, db_queue, dbUnfinished, started, stopsPut,
                   wPc, wProduct, dbProduct, storage, log, connections,
                   hist>>
    /\ UNCHANGED offPipe

\* product_worker: product = product_queue.get(), which blocks while the
\* queue is empty; `if product is STOP_SIGNAL: break`
WorkerGet(w) ==
    /\ wPc[w] = "get"
    /\ product_queue # <<>>
    /\ LET product == Head(product_queue) IN
           IF product = STOP_SIGNAL
           THEN /\ wPc' = [wPc EXCEPT ![w] = "exited"]
                /\ UNCHANGED <<wProduct, hist>>
           ELSE /\ wPc' = [wPc EXCEPT ![w] = "scrape"]
                /\ wProduct' = [wProduct EXCEPT ![w] = product]
                /\ hist' = [hist EXCEPT !.deq[product.id] = @ + 1]
    /\ product_queue' = QueueRest(product_queue)
    /\ UNCHANGED <<mainPc, catIdx, categories, taskPc, taskIdx, pqUnfinished,
                   db_queue, dbUnfinished, started, stopsPut, dbPc, dbProduct,
                   storage, log, connections>>
    /\ UNCHANGED offPipe

\* what product_worker puts on db_queue for a product, given what
\* fetch_page returned for its detail page
Scrape(product, content) == Update(product, ExtractPriceData(content))

\* a worker that drops the product when its detail page cannot be fetched
WorkerScrapeDropsFailed(w) ==
    /\ wPc[w] = "scrape"
    /\ \E content \in DetailFetchResults :
           LET product == Scrape(wProduct[w], content) IN
               IF content = None
               THEN /\ hist' = [hist EXCEPT !.failed = @ \cup {product.id}]
                    /\ UNCHANGED <<db_queue, dbUnfinished, wProduct>>
               ELSE /\ db_queue' = QueuePut(db_queue, product)
                    /\ dbUnfinished' = dbUnfinished + 1
                    /\ wProduct' = [wProduct EXCEPT ![w] = product]
                    /\ hist' = [hist EXCEPT !.put = Append(@, product)]
    /\ wPc' = [wPc EXCEPT ![w] = "task_done"]
    /\ UNCHANGED <<mainPc, catIdx, categories, taskPc, taskIdx, product_queue,
                   pqUnfinished, started, stopsPut, dbPc, dbProduct, storage,
                   log, connections>>
    /\ UNCHANGED offPipe

\* product_worker: price_data = extract_price_data(product["url"]);
\* product.update(price_data); db_queue.put(product)
WorkerScrape(w) ==
    /\ wPc[w] = "scrape"
    /\ \E content \in DetailFetchResults :
           LET product == Scrape(wProduct[w], content) IN
               /\ db_queue' = QueuePut(db_queue, product)
               /\ wProduct' = [wProduct EXCEPT ![w] = product]
               /\ hist' = [hist EXCEPT
                              !.put = Append(@, product),
                              !.failed = IF content = None
                                         THEN @ \cup {product.id} ELSE @]
    /\ dbUnfinished' = dbUnfinished + 1
    /\ wPc' = [wPc EXCEPT ![w] = "task_done"]
    /\ UNCHANGED <<mainPc, catIdx, categories, taskPc, taskIdx, product_queue,
                   pqUnfinished, started, stopsPut, dbPc, dbProduct, storage,
                   log, connections>>
    /\ UNCHANGED offPipe

\* product_worker: product_queue.task_done(), the pause, the next turn
WorkerTaskDone(w) ==
    /\ wPc[w] = "task_done"
    /\ pqUnfinished' = pqUnfinished - 1
    /\ wPc' = [wPc EXCEPT ![w] = "get"]
    /\ wProduct' = [wProduct EXCEPT ![w] = NoProduct]
    /\ UNCHANGED <<mainPc, catIdx, categories, taskPc, taskIdx, product_queue,
                   db_queue, dbUnfinished, started, stopsPut, dbPc, dbProduct,
                   storage, log, connections,
                   hist>>
    /\ UNCHANGED offPipe

\* db_worker: product = db_queue.get(); `if product is STOP_SIGNAL: break`
DbGet ==
    /\ dbPc = "get"
    /\ db_queue # <<>>
    /\ LET product == Head(db_queue) IN
           IF product = STOP_SIGNAL
           THEN /\ dbPc' = "exited"
                /\ UNCHANGED <<dbProduct, hist>>
           ELSE /\ dbPc' = "save"
                /\ dbProduct' = product
                /\ hist' = [hist EXCEPT !.got = Append(@, product)]
    /\ db_queue' = QueueRest(db_queue)
    /\ UNCHANGED <<mainPc, catIdx, categories, taskPc, taskIdx, product_queue,
                   pqUnfinished, dbUnfinished, started, stopsPut, wPc,
                   wProduct, storage, log, connections>>
    /\ UNCHANGED offPipe

\* save_to_db: conn = sqlite3.connect(DB_FILE); cursor = conn.cursor()
DbConnect ==
    /\ dbPc = "save"
    /\ connections' = connections + 1
    /\ dbPc' = "write"
    /\ UNCHANGED <<mainPc, catIdx, categories, taskPc, taskIdx, product_queue,
                   pqUnfinished, db_queue, dbUnfinished, started, stopsPut,
                   wPc, wProduct, dbProduct, storage, log, hist>>
    /\ UNCHANGED offPipe

\* a save_to_db without `except Exception`: a storage fault leaves the call
\* (through the finally) and ends the db_worker thread
DbSaveFaultRaises ==
    /\ dbPc = "write"
    /\ \E fault \in BOOLEAN :
           LET saved == SaveToDb(storage, dbProduct, fault) IN
               /\ storage' = saved.rows
               /\ log' = IF fault THEN log
                         ELSE Append(log, [id |-> dbProduct.id,
                                           outcome |-> saved.outcome])
               /\ dbPc' = IF fault THEN "crashed" ELSE "task_done"
    /\ connections' = connections - 1
    /\ UNCHANGED <<mainPc, catIdx, categories, taskPc, taskIdx, product_queue,
                   pqUnfinished, db_queue, dbUnfinished, started, stopsPut,
                   wPc, wProduct, dbProduct, hist>>
    /\ UNCHANGED offPipe

\* a save_to_db without the finally: the connection is closed on the
\* paths that do not raise only
DbSaveLeaksOnFault ==
    /\ dbPc = "write"
    /\ \E fault \in BOOLEAN :
           LET saved == SaveToDb(storage, dbProduct, fault) IN
               /\ storage' = saved.rows
               /\ log' = Append(log, [id |-> dbProduct.id,
                                      outcome |-> saved.outcome])
               /\ connections' = IF fault THEN connections
                                 ELSE connections - 1
    /\ dbPc' = "task_done"
    /\ UNCHANGED <<mainPc, catIdx, categories, taskPc, taskIdx, product_queue,
                   pqUnfinished, db_queue, dbUnfinished, started, stopsPut,
                   wPc, wProduct, dbProduct, hist>>
    /\ UNCHANGED offPipe

\* save_to_db, the try statement: the INSERT and the commit, the handlers
\* that log the outcome, and `finally: conn.close()`; the call returns
DbSave ==
    /\ dbPc = "write"
    /\ \E fault \in BOOLEAN :
           LET saved == SaveToDb(storage, dbProduct, fault) IN
               /\ storage' = saved.rows
               /\ log' = Append(log, [id |-> dbProduct.id,
                                      outcome |-> saved.outcome])
    /\ connections' = connections - 1
    /\ dbPc' = "task_done"
    /\ UNCHANGED <<mainPc, catIdx, categories, taskPc, taskIdx, product_queue,
                   pqUnfinished, db_queue, dbUnfinished, started, stopsPut,
                   wPc, wProduct, dbProduct, hist>>
    /\ UNCHANGED offPipe

\* db_worker: db_queue.task_done(), the next turn
DbTaskDone ==
    /\ dbPc = "task_done"
    /\ dbUnfinished' = dbUnfinished - 1
    /\ dbPc' = "get"
    /\ dbProduct' = NoProduct
    /\ UNCHANGED <<mainPc, catIdx, categories, taskPc, taskIdx, product_queue,
                   pqUnfinished, db_queue, started, stopsPut, wPc, wProduct,
                   storage, log, connections,
                   hist>>
    /\ UNCHANGED offPipe

\* a main that signals without joining: it goes on to the sentinels while
\* products are still unfinished
MainJoinProductsNoWait ==
    /\ mainPc = "join_products"
    /\ mainPc' = "put_stops"
    /\ UNCHANGED <<catIdx, categories, taskPc, taskIdx, product_queue,
                   pqUnfinished, db_queue, dbUnfinished, started, stopsPut,
                   wPc, wProduct, dbPc, dbProduct, storage, log, connections,
                   hist>>
    /\ UNCHANGED offPipe

\* main: product_queue.join() returns once no task is unfinished
MainJoinProducts ==
    /\ mainPc = "join_products"
    /\ pqUnfinished = 0
    /\ mainPc' = "put_stops"
    /\ UNCHANGED <<catIdx, categories, taskPc, taskIdx, product_queue,
                   pqUnfinished, db_queue, dbUnfinished, started, stopsPut,
                   wPc, wProduct, dbPc, dbProduct, storage, log, connections,
                   hist>>
    /\ UNCHANGED offPipe

\* main: product_queue.put(STOP_SIGNAL), once per turn of range(num_threads)
MainPutStop ==
    /\ mainPc = "put_stops"
    /\ stopsPut < NumThreads
    /\ product_queue' = QueuePut(product_queue, STOP_SIGNAL)
    /\ pqUnfinished' = pqUnfinished + 1
    /\ stopsPut' = stopsPut + 1
    /\ mainPc' = IF stopsPut + 1 = NumThreads THEN "join_threads"
                 ELSE "put_stops"
    /\ UNCHANGED <<catIdx, categories, taskPc, taskIdx, db_queue,
                   dbUnfinished, started, wPc, wProduct, dbPc, dbProduct,
                   storage, log, connections,
                   hist>>
    /\ UNCHANGED offPipe

\* main: `for t in threads: t.join()` is over once every worker has exited
MainJoinThreads ==
    /\ mainPc = "join_threads"
    /\ \A w \in Workers : wPc[w] \in {"exited", "crashed"}
    /\ mainPc' = "join_db_queue"
    /\ UNCHANGED <<catIdx, categories, taskPc, taskIdx, product_queue,
                   pqUnfinished, db_queue, dbUnfinished, started, stopsPut,
                   wPc, wProduct, dbPc, dbProduct, storage, log, connections,
                   hist>>
    /\ UNCHANGED offPipe

\* main: db_queue.join() returns once no record is unfinished
MainJoinDbQueue ==
    /\ mainPc = "join_db_queue"
    /\ dbUnfinished = 0
    /\ mainPc' = "put_db_stop"
    /\ UNCHANGED <<catIdx, categories, taskPc, taskIdx, product_queue,
                   pqUnfinished, db_queue, dbUnfinished, started, stopsPut,
                   wPc, wProduct, dbPc, dbProduct, storage, log, connections,
                   hist>>
    /\ UNCHANGED offPipe

\* main: db_queue.put(STOP_SIGNAL)
MainPutDbStop ==
    /\ mainPc = "put_db_stop"
    /\ db_queue' = QueuePut(db_queue, STOP_SIGNAL)
    /\ dbUnfinished' = dbUnfinished + 1
    /\ mainPc' = "join_db_thread"
    /\ UNCHANGED <<catIdx, categories, taskPc, taskIdx, product_queue,
                   pqUnfinished, started, stopsPut, wPc, wProduct, dbPc,
                   dbProduct, storage, log, connections,
                   hist>>
    /\ UNCHANGED offPipe

\* main: db_thread.join() returns, the run is logged as completed
MainJoinDbThread ==
    /\ mainPc = "join_db_thread"
    /\ dbPc = "exited"
    /\ mainPc' = "done"
    /\ UNCHANGED <<catIdx, categories, taskPc, taskIdx, product_queue,
                   pqUnfinished, db_queue, dbUnfinished, started, stopsPut,
                   wPc, wProduct, dbPc, dbProduct, storage, log, connections,
                   hist>>
    /\ UNCHANGED offPipe

NextPipe ==
    \/ MainInitDb
    \/ MainGetCategories
    \/ MainSubmit
    \/ \E s \in Subcats : TaskStart(s)
    \/ \E s \in Subcats : TaskPut(s)
    \/ \E s \in Subcats : TaskFinish(s)
    \/ MainWaitFutures
    \/ MainStartThread
    \/ MainStartDb
    \/ \E w \in Workers : WorkerGet(w)
    \/ \E w \in Workers : WorkerScrape(w)
    \/ \E w \in Workers : WorkerTaskDone(w)
    \/ DbGet
    \/ DbConnect
    \/ DbSave
    \/ DbTaskDone
    \/ MainJoinProducts
    \/ MainPutStop
    \/ MainJoinThreads
    \/ MainJoinDbQueue
    \/ MainPutDbStop
    \/ MainJoinDbThread

\* product_worker: an exception out of extract_price_data (retry catches
\* requests.RequestException only; the parse is unguarded) is caught nowhere
\* in product_worker: the thread ends where it stands, with its product
\* taken and product_queue.task_done() not called
WorkerRaise(w) ==
    /\ wPc[w] = "scrape"
    /\ wPc' = [wPc EXCEPT ![w] = "crashed"]
    /\ UNCHANGED <<mainPc, catIdx, categories, taskPc, taskIdx, product_queue,
                   pqUnfinished, db_queue, dbUnfinished, started, stopsPut,
                   wProduct, dbPc, dbProduct, storage, log, connections,
                   hist>>
    /\ UNCHANGED offPipe

\* the pipeline with workers that may raise
NextCrash ==
    \/ NextPipe
    \/ \E w \in Workers : WorkerRaise(w)

----------------------------------------------------------------------------
(* The retry decorator around fetch_page (task_1)                          *)

\* the largest max_attempts a call is given (fetch_page's own is 3)
MaxAttempts == 4
\* the most failures the stub transport makes before it succeeds
MaxFails == 5

\* what the stub transport raises when it fails: a transient
\* requests.RequestException (connection error, timeout, the HTTPError of
\* raise_for_status), the MissingSchema that requests.get raises for a
\* malformed URL, or an exception of another class
ExceptionKinds == {"RequestException", "MissingSchema", "Exception"}

\* `except requests.RequestException` matches the class and its subclasses;
\* requests.exceptions.MissingSchema is a subclass of RequestException
IsRequestException(e) == e \in {"RequestException", "MissingSchema"}

\* what the stub transport returns when it succeeds (response.text)
Contents == {[text |-> "page"]}

\* the call while nothing has returned yet
NoResult == [pending |-> TRUE]

offRetry == <<pipeVars, pager, writer, procVars>>

\* a call of wrapper: attempts = 0, before the first test of the loop.
\* fails: how many calls of func raise before one returns.
RetryCalls ==
    {[pc |-> "loop", max_attempts |-> m, fails |-> k, raises |-> e,
      content |-> c, attempts |-> 0, calls |-> 0, result |-> NoResult,
      warnings |-> 0, errors |-> 0, sleeps |-> 0] :
        m \in 1..MaxAttempts, k \in 0..MaxFails, e \in ExceptionKinds,
        c \in Contents}

\* no call is under way
IdleRetry ==
    [pc |-> "idle", max_attempts |-> 0, fails |-> 0,
     raises |-> "RequestException", content |-> None, attempts |-> 0,
     calls |-> 0, result |-> NoResult, warnings |-> 0, errors |-> 0,
     sleeps |-> 0]

\* a loop test that lets one attempt too many through
RetryLoopTestOffByOne(attempts, max_attempts) == attempts <= max_attempts

\* `while attempts < max_attempts`
RetryLoopTest(attempts, max_attempts) == attempts < max_attempts

\* `try: return func(*args, **kwargs)`: func returns, or raises
RetryTry ==
    /\ retry.pc = "loop"
    /\ RetryLoopTest(retry.attempts, retry.max_attempts)
    /\ retry' = IF retry.calls < retry.fails
                THEN [retry EXCEPT !.calls = @ + 1, !.pc = "raised"]
                ELSE [retry EXCEPT !.calls = @ + 1, !.pc = "returned",
                                   !.result = retry.content]
    /\ UNCHANGED offRetry

\* `except requests.RequestException`: the warning, attempts += 1,
\* time.sleep(delay); any other exception leaves the wrapper
RetryExcept ==
    /\ retry.pc = "raised"
    /\ retry' = IF IsRequestException(retry.raises)
                THEN [retry EXCEPT !.warnings = @ + 1, !.attempts = @ + 1,
                                   !.sleeps = @ + 1, !.pc = "loop"]
                ELSE [retry EXCEPT !.pc = "propagated"]
    /\ UNCHANGED offRetry

\* the loop is over: the error is logged, the wrapper returns None
RetryExhausted ==
    /\ retry.pc = "loop"
    /\ ~RetryLoopTest(retry.attempts, retry.max_attempts)
    /\ retry' = [retry EXCEPT !.errors = @ + 1, !.result = None,
                              !.pc = "returned"]
    /\ UNCHANGED offRetry

NextRetry == RetryTry \/ RetryExcept \/ RetryExhausted

----------------------------------------------------------------------------
(* Pagination of a subcategory: get_products_from_subcategory (task_1)     *)

\* pages the stub source defines; the model follows a call up to here
MaxPage == 3
\* the most product cards a page of the stub source holds
MaxCards == 2

\* what fetch_page returns for a subcategory page: None, or a page with a
\* number of product cards (none on an empty page)
PageResults == {None} \cup {[cards |-> n] : n \in 0..MaxCards}

\* the stub sources: what each page gives
Sources == [1..MaxPage -> PageResults]

\* the products of the cards of a page (page, position on the page)
CardProducts(page, content) == [c \in 1..content.cards |-> <<page, c>>]

offPager == <<pipeVars, retry, writer, procVars>>

\* a call: products = [], page = 1, before the first fetch
PagerCalls ==
    {[pc |-> "fetch", source |-> src, page |-> 1, products |-> <<>>,
      requests |-> <<>>] : src \in Sources}

\* no call is under way
IdlePager ==
    [pc |-> "idle", source |-> <<>>, page |-> 1, products |-> <<>>,
     requests |-> <<>>]

\* a turn that goes on to the next page when the fetch failed
PagerTurnSkipsFailure(call, content) ==
    LET asked == [call EXCEPT !.requests = Append(@, call.page)] IN
    IF content = None THEN [asked EXCEPT !.page = @ + 1]
    ELSE IF content.cards = 0 THEN [asked EXCEPT !.pc = "returned"]
    ELSE [asked EXCEPT
             !.products = @ \o CardProducts(call.page, content),
             !.page = @ + 1]

\* one turn of `while True`, given what fetch_page returned for `page`:
\* break on None and on a page without cards, else take the cards and
\* page += 1
PagerTurn(call, content) ==
    LET asked == [call EXCEPT !.requests = Append(@, call.page)] IN
    IF content = None THEN [asked EXCEPT !.pc = "returned"]
    ELSE IF content.cards = 0 THEN [asked EXCEPT !.pc = "returned"]
    ELSE [asked EXCEPT
             !.products = @ \o CardProducts(call.page, content),
             !.page = @ + 1]

\* get_products_from_subcategory: fetch the page, look at it
PagerFetch ==
    /\ pager.pc = "fetch"
    /\ pager.page <= MaxPage
    /\ pager' = PagerTurn(pager, pager.source[pager.page])
    /\ UNCHANGED offPager

NextPager == PagerFetch

----------------------------------------------------------------------------
(* The writer run twice over the same records (task_1)                     *)

\* the most records one run of the writer is given
MaxRecords == 2

\* the records product_worker can put on db_queue
Records == {Scrape(Product(i), c) : i \in Items, c \in DetailFetchResults}

RECURSIVE SeqsUpTo(_, _)
\* the sequences over S of length at most n
SeqsUpTo(S, n) ==
    IF n = 0 THEN {<<>>}
    ELSE LET shorter == SeqsUpTo(S, n - 1) IN
         shorter \cup {Append(q, x) : q \in shorter, x \in S}

offWriter == <<retry, pager, procVars>>

\* before the first run: the records to write, an empty table
WriterRuns ==
    {[run |-> 0, records |-> recs, first |-> <<>>, logged |-> 0] :
        recs \in SeqsUpTo(Records, MaxRecords)}

\* no run of the writer alone is under way
IdleWriter == [run |-> 0, records |-> <<>>, first |-> <<>>, logged |-> 0]

\* a run of the writer: the records are put on db_queue, then STOP_SIGNAL
\* as main does, and the db_worker thread is started. The table and the
\* length of the log at the start of the run are kept for comparison.
WriterStart ==
    /\ writer.run < 2
    /\ dbPc \in {"unstarted", "exited"}
    /\ db_queue' = writer.records \o <<STOP_SIGNAL>>
    /\ dbUnfinished' = dbUnfinished + Len(writer.records) + 1
    /\ dbPc' = "get"
    /\ writer' = [writer EXCEPT !.run = @ + 1, !.first = storage,
                                !.logged = Len(log)]
    /\ UNCHANGED <<mainPc, catIdx, categories, taskPc, taskIdx, product_queue,
                   pqUnfinished, started, stopsPut, wPc, wProduct, dbProduct,
                   storage, log, connections,
                   hist>>
    /\ UNCHANGED offWriter

NextWriter == WriterStart \/ DbGet \/ DbConnect \/ DbSave \/ DbTaskDone

----------------------------------------------------------------------------
(* The process-parallel variant (task_2): ProcessManager, scraper_worker   *)

\* the longest link list and the most processes _split_links is tried on
MaxSplitLinks == 12
MaxSplitProcs == 4
\* the longest link list and the most processes a whole run is followed on
MaxLinks == 3
MaxProcs == 2

Min(a, b) == IF a < b THEN a ELSE b

\* floor division where the ceiling is meant
CeilAsFloor(a, b) == a \div b

\* math.ceil(a / b) for a >= 0 and b >= 1
Ceil(a, b) == IF a % b = 0 THEN a \div b ELSE (a \div b) + 1

\* the Python slice list[lo:hi] for 0 <= lo <= hi: both ends are clipped
\* to the length of the list
Slice(list, lo, hi) == SubSeq(list, Min(lo, Len(list)) + 1, Min(hi, Len(list)))

\* chunk_size = math.ceil(len(self.book_links) / self.num_processes)
ChunkSize(links, n) == Ceil(Len(links), n)

\* ProcessManager._split_links; chunk i of the model is chunk i - 1 of
\* the program
SplitLinks(links, n) ==
    [i \in 1..n |->
        Slice(links, (i - 1) * ChunkSize(links, n), i * ChunkSize(links, n))]

\* the links get_all_book_links found: n distinct links
Links(n) == [i \in 1..n |-> i]

\* what scrape_book returns for a link: the book's dict, or None when an
\* exception was caught
ScrapeBook(link, ok) == IF ok THEN [title |-> link] ELSE None

\* scrape_books: `if book_data: data.append(book_data)`
AppendBook(data, book_data) ==
    IF book_data = None THEN data ELSE Append(data, book_data)

\* a loop test that stops one end-marker early
CollectTestOneShort(signals, n) == signals < n - 1

\* `while stop_signals < self.num_processes`
CollectTest(signals, n) == signals < n

Procs == 1..num_processes

offProc == <<pipeVars, retry, pager, writer>>

\* a ProcessManager under construction: the fields set, _split_links
\* not yet called
InitSplit ==
    /\ num_processes \in 1..MaxSplitProcs
    /\ book_links \in {Links(n) : n \in 0..MaxSplitLinks}
    /\ link_chunks = <<>>
    /\ mgrPc = "init"
    /\ mgrIdx = 1
    /\ mqueue = <<>>
    /\ all_data = <<>>
    /\ stop_signals = 0
    /\ results = None
    /\ terminated = {}
    /\ pPc = <<>>
    /\ pIdx = <<>>
    /\ pData = <<>>

\* ProcessManager.__init__: self.link_chunks = self._split_links()
ManagerInit ==
    /\ mgrPc = "init"
    /\ link_chunks' = SplitLinks(book_links, num_processes)
    /\ mgrPc' = "constructed"
    /\ UNCHANGED <<num_processes, book_links, mgrIdx, mqueue, all_data,
                   stop_signals, results, terminated, pPc, pIdx, pData>>
    /\ UNCHANGED offProc

NextSplit == ManagerInit

\* a constructed ProcessManager, before run()
InitProc ==
    /\ num_processes \in 1..MaxProcs
    /\ book_links \in {Links(n) : n \in 0..MaxLinks}
    /\ link_chunks = SplitLinks(book_links, num_processes)
    /\ mgrPc = "start"
    /\ mgrIdx = 1
    /\ mqueue = <<>>
    /\ all_data = <<>>
    /\ stop_signals = 0
    /\ results = None
    /\ terminated = {}
    /\ pPc = [p \in 1..num_processes |-> "unstarted"]
    /\ pIdx = [p \in 1..num_processes |-> 0]
    /\ pData = [p \in 1..num_processes |-> <<>>]

\* start_processes: one turn of the loop, process.start()
MgrStart ==
    /\ mgrPc = "start"
    /\ mgrIdx <= num_processes
    /\ pPc' = [pPc EXCEPT ![mgrIdx] = "launch"]
    /\ mgrIdx' = mgrIdx + 1
    /\ UNCHANGED <<num_processes, book_links, link_chunks, mgrPc, mqueue,
                   all_data, stop_signals, results, terminated, pIdx, pData>>
    /\ UNCHANGED offProc

\* run: start_processes() has returned, on to the joins
MgrStarted ==
    /\ mgrPc = "start"
    /\ mgrIdx > num_processes
    /\ mgrPc' = "join"
    /\ mgrIdx' = 1
    /\ UNCHANGED <<num_processes, book_links, link_chunks, mqueue, all_data,
                   stop_signals, results, terminated, pPc, pIdx, pData>>
    /\ UNCHANGED offProc

\* a run that goes through its joins without waiting for the processes
MgrJoinNoWait ==
    /\ mgrPc = "join"
    /\ mgrIdx <= num_processes
    /\ mgrIdx' = mgrIdx + 1
    /\ UNCHANGED <<num_processes, book_links, link_chunks, mgrPc, mqueue,
                   all_data, stop_signals, results, terminated, pPc, pIdx,
                   pData>>
    /\ UNCHANGED offProc

\* run: process.join() returns once the process has ended, however it did
MgrJoin ==
    /\ mgrPc = "join"
    /\ mgrIdx <= num_processes
    /\ pPc[mgrIdx] \in {"exited", "crashed"}
    /\ mgrIdx' = mgrIdx + 1
    /\ UNCHANGED <<num_processes, book_links, link_chunks, mgrPc, mqueue,
                   all_data, stop_signals, results, terminated, pPc, pIdx,
                   pData>>
    /\ UNCHANGED offProc

\* run: every process is joined, collect_data() is called
MgrJoined ==
    /\ mgrPc = "join"
    /\ mgrIdx > num_processes
    /\ mgrPc' = "collect"
    /\ UNCHANGED <<num_processes, book_links, link_chunks, mgrIdx, mqueue,
                   all_data, stop_signals, results, terminated, pPc, pIdx,
                   pData>>
    /\ UNCHANGED offProc

\* collect_data: one turn of the loop; self.queue.get() blocks while the
\* queue is empty
MgrCollect ==
    /\ mgrPc = "collect"
    /\ CollectTest(stop_signals, num_processes)
    /\ mqueue # <<>>
    /\ LET result == Head(mqueue) IN
           IF result = STOP_SIGNAL
           THEN /\ stop_signals' = stop_signals + 1
                /\ UNCHANGED all_data
           ELSE /\ all_data' = all_data \o result.batch
                /\ UNCHANGED stop_signals
    /\ mqueue' = QueueRest(mqueue)
    /\ UNCHANGED <<num_processes, book_links, link_chunks, mgrPc, mgrIdx,
                   results, terminated, pPc, pIdx, pData>>
    /\ UNCHANGED offProc

\* collect_data returns all_data; run terminates the processes still alive
\* and returns the results
MgrReturn ==
    /\ mgrPc = "collect"
    /\ ~CollectTest(stop_signals, num_processes)
    /\ results' = all_data
    /\ terminated' = {p \in Procs : pPc[p] \notin {"exited", "crashed"}}
    /\ mgrPc' = "returned"
    /\ UNCHANGED <<num_processes, book_links, link_chunks, mgrIdx, mqueue,
                   all_data, stop_signals, pPc, pIdx, pData>>
    /\ UNCHANGED offProc

\* scrape_books: async_playwright() is entered and chromium launched
ProcLaunch(p) ==
    /\ pPc[p] = "launch"
    /\ pPc' = [pPc EXCEPT ![p] = "scrape"]
    /\ UNCHANGED <<num_processes, book_links, link_chunks, mgrPc, mgrIdx,
                   mqueue, all_data, stop_signals, results, terminated, pIdx,
                   pData>>
    /\ UNCHANGED offProc

\* scrape_books: one turn of `for link in links`
ProcScrape(p) ==
    /\ pPc[p] = "scrape"
    /\ pIdx[p] < Len(link_chunks[p])
    /\ \E ok \in BOOLEAN :
           pData' = [pData EXCEPT ![p] =
                        AppendBook(@, ScrapeBook(link_chunks[p][pIdx[p] + 1],
                                                 ok))]
    /\ pIdx' = [pIdx EXCEPT ![p] = @ + 1]
    /\ UNCHANGED <<num_processes, book_links, link_chunks, mgrPc, mgrIdx,
                   mqueue, all_data, stop_signals, results, terminated, pPc>>
    /\ UNCHANGED offProc

\* scrape_books: the loop is over, browser.close(), return data
ProcClose(p) ==
    /\ pPc[p] = "scrape"
    /\ pIdx[p] = Len(link_chunks[p])
    /\ pPc' = [pPc EXCEPT ![p] = "put_results"]
    /\ UNCHANGED <<num_processes, book_links, link_chunks, mgrPc, mgrIdx,
                   mqueue, all_data, stop_signals, results, terminated, pIdx,
                   pData>>
    /\ UNCHANGED offProc

\* scraper_worker: queue.put(results)
ProcPutResults(p) ==
    /\ pPc[p] = "put_results"
    /\ mqueue' = QueuePut(mqueue, [batch |-> pData[p]])
    /\ pPc' = [pPc EXCEPT ![p] = "put_stop"]
    /\ UNCHANGED <<num_processes, book_links, link_chunks, mgrPc, mgrIdx,
                   all_data, stop_signals, results, terminated, pIdx, pData>>
    /\ UNCHANGED offProc

\* scraper_worker: queue.put(STOP_SIGNAL), and the process ends
ProcPutStop(p) ==
    /\ pPc[p] = "put_stop"
    /\ mqueue' = QueuePut(mqueue, STOP_SIGNAL)
    /\ pPc' = [pPc EXCEPT ![p] = "exited"]
    /\ UNCHANGED <<num_processes, book_links, link_chunks, mgrPc, mgrIdx,
                   all_data, stop_signals, results, terminated, pIdx, pData>>
    /\ UNCHANGED offProc

\* an exception outside scrape_book's try (launching the browser, closing
\* it) leaves scraper_worker: the process ends, nothing is put
ProcCrash(p) ==
    /\ \/ pPc[p] = "launch"
       \/ pPc[p] = "scrape" /\ pIdx[p] = Len(link_chunks[p])
    /\ pPc' = [pPc EXCEPT ![p] = "crashed"]
    /\ UNCHANGED <<num_processes, book_links, link_chunks, mgrPc, mgrIdx,
                   mqueue, all_data, stop_signals, results, terminated, pIdx,
                   pData>>
    /\ UNCHANGED offProc

NextProc ==
    \/ MgrStart
    \/ MgrStarted
    \/ MgrJoin
    \/ MgrJoined
    \/ MgrCollect
    \/ MgrReturn
    \/ \E p \in Procs : ProcLaunch(p)
    \/ \E p \in Procs : ProcScrape(p)
    \/ \E p \in Procs : ProcClose(p)
    \/ \E p \in Procs : ProcPutResults(p)
    \/ \E p \in Procs : ProcPutStop(p)
    \/ \E p \in Procs : ProcCrash(p)

\* no ProcessManager exists
IdleProc ==
    /\ num_processes = 0
    /\ book_links = <<>>
    /\ link_chunks = <<>>
    /\ mgrPc = "idle"
    /\ mgrIdx = 1
    /\ mqueue = <<>>
    /\ all_data = <<>>
    /\ stop_signals = 0
    /\ results = None
    /\ terminated = {}
    /\ pPc = <<>>
    /\ pIdx = <<>>
    /\ pData = <<>>

----------------------------------------------------------------------------
(* The specifications                                                      *)

\* the task_1 pipeline, from the start of main()
Init == InitPipe /\ retry = IdleRetry /\ pager = IdlePager
        /\ writer = IdleWriter /\ IdleProc
Next == NextPipe
Spec == Init /\ [][Next]_vars
\* every thread that can take a step is scheduled in the end
FairSpec == Spec /\ WF_vars(Next)

\* the pipeline with workers that may raise, every thread scheduled
SpecCrash == Init /\ [][NextCrash]_vars
FairSpecCrash == SpecCrash /\ WF_vars(NextCrash)

\* one call of the retry wrapper
InitRetry == InitPipe /\ retry \in RetryCalls /\ pager = IdlePager
             /\ writer = IdleWriter /\ IdleProc
SpecRetry == InitRetry /\ [][NextRetry]_vars

\* one call of get_products_from_subcategory
InitPager == InitPipe /\ retry = IdleRetry /\ pager \in PagerCalls
             /\ writer = IdleWriter /\ IdleProc
SpecPage == InitPager /\ [][NextPager]_vars

\* two runs of the writer over the same records
InitWriter == InitPipe /\ retry = IdleRetry /\ pager = IdlePager
              /\ writer \in WriterRuns /\ IdleProc
SpecWriter == InitWriter /\ [][NextWriter]_vars

\* ProcessManager.__init__ on a list of links
InitSplitSpec == InitPipe /\ retry = IdleRetry /\ pager = IdlePager
                 /\ writer = IdleWriter /\ InitSplit
SpecSplit == InitSplitSpec /\ [][NextSplit]_vars

\* ProcessManager.run()
InitProcSpec == InitPipe /\ retry = IdleRetry /\ pager = IdlePager
                /\ writer = IdleWriter /\ InitProc
SpecProc == InitProcSpec /\ [][NextProc]_vars
\* every process that can take a step is scheduled in the end
FairSpecProc == SpecProc /\ WF_vars(NextProc)

----------------------------------------------------------------------------
(* Claims about the thread-parallel pipeline                               *)

\* how many elements of the sequence q are for product id
RECURSIVE CountIn(_, _)
CountIn(q, id) ==
    IF q = <<>> THEN 0
    ELSE (IF Head(q).id = id THEN 1 ELSE 0) + CountIn(Tail(q), id)

\* how many records for product i have reached the writer's input
Reached(i) == CountIn(hist.put, i)

\* product_queue.join() has returned in main
ProductsJoined ==
    mainPc \in {"put_stops", "join_threads", "join_db_queue", "put_db_stop",
                "join_db_thread", "done"}

\* C1: every product put on product_queue is taken from it by exactly one
\* worker and gives exactly one record on db_queue: never two takes and never
\* two records for a product, no record without a take, and once
\* product_queue.join() has returned one take and one record for each.
C1_ExactlyOneRecord ==
    /\ \A i \in Items :
           /\ hist.deq[i] <= 1
           /\ Reached(i) <= hist.deq[i]
           /\ hist.deq[i] = 1 => i \in hist.enq
    /\ ProductsJoined =>
           \A i \in hist.enq : hist.deq[i] = 1 /\ Reached(i) = 1

\* C1 witness: every product of the site was queued, both workers were
\* running, and the join has returned with one record for each product
C1_Witness ==
    /\ mainPc = "put_stops"
    /\ hist.enq = Items
    /\ \A i \in Items : hist.deq[i] = 1 /\ Reached(i) = 1

\* how many STOP_SIGNALs the sequence q holds
RECURSIVE StopsIn(_)
StopsIn(q) ==
    IF q = <<>> THEN 0
    ELSE (IF Head(q) = STOP_SIGNAL THEN 1 ELSE 0) + StopsIn(Tail(q))

\* save_to_db has been called for product i and has returned
Saved(i) == \E k \in 1..Len(log) : log[k].id = i

\* how many calls of save_to_db ended with the given outcome
RECURSIVE OutcomesIn(_, _)
OutcomesIn(q, outcome) ==
    IF q = <<>> THEN 0
    ELSE (IF Head(q).outcome = outcome THEN 1 ELSE 0)
         + OutcomesIn(Tail(q), outcome)

\* the sentinels on product_queue come after the join: while one has been
\* put, every queued product has its record on the writer's input, no
\* worker holds a product, nothing but sentinels is on product_queue, and
\* each sentinel put is either still queued or has ended one worker
C5_StopsAfterJoin ==
    /\ stopsPut <= NumThreads
    /\ StopsIn(product_queue)
           + Cardinality({w \in Workers : wPc[w] = "exited"}) = stopsPut
    /\ stopsPut > 0 =>
           /\ \A i \in hist.enq : hist.deq[i] = 1 /\ Reached(i) = 1
           /\ \A w \in Workers : wPc[w] \in {"get", "exited"}
           /\ StopsIn(product_queue) = Len(product_queue)

\* the writer's sentinel comes after the records: while it has been put,
\* every worker has exited on its own sentinel, save_to_db has returned for
\* every record, each record is a row unless save_to_db logged a fault for
\* it, and db_queue holds nothing but the sentinel
C5_DbStopAfterRecords ==
    mainPc \in {"join_db_thread", "done"} =>
        /\ stopsPut = NumThreads
        /\ \A w \in Workers : wPc[w] = "exited"
        /\ product_queue = <<>>
        /\ \A i \in hist.enq : Saved(i)
        /\ Len(log) = Len(hist.put)
        /\ Len(storage) = Len(log) - OutcomesIn(log, "Fault")
        /\ dbPc \in {"get", "exited"}
        /\ db_queue \in {<<>>, <<STOP_SIGNAL>>}

\* main is through: every thread is joined and nothing is left unwritten
C5_AllJoined ==
    /\ mainPc = "done"
    /\ \A w \in Workers : wPc[w] = "exited"
    /\ dbPc = "exited"
    /\ product_queue = <<>>
    /\ db_queue = <<>>
    /\ \A i \in hist.enq : Saved(i)

\* C5: shutdown is join-then-signal. Sentinels go on product_queue only
\* after every product is fully processed, one per worker, and each ends
\* one worker; the writer's sentinel goes on db_queue only after every
\* record has been through save_to_db; and main in the end joins every
\* thread with db_queue empty.
C5_JoinThenSignal ==
    /\ [](C5_StopsAfterJoin /\ C5_DbStopAfterRecords)
    /\ <>C5_AllJoined

\* C5 witness: main is through after a run in which every product was
\* queued and written
C5_Witness ==
    /\ C5_AllJoined
    /\ hist.enq = Items
    /\ Len(storage) = NumItems

\* the table that the calls of save_to_db logged so far leave behind, had
\* they been made one after the other in the order db_worker took the
\* records: a row for each call that did not end in a fault or a collision
RECURSIVE RowsAfter(_)
RowsAfter(k) ==
    IF k = 0 THEN <<>>
    ELSE LET rows == RowsAfter(k - 1) IN
         IF log[k].outcome = "Inserted"
         THEN Append(rows, NewRow(rows, hist.got[k]))
         ELSE rows

\* db_worker holds a record that save_to_db has not returned for
Saving == dbPc \in {"save", "write"}

C15_SingleWriterInOrder ==
    /\ connections \in {0, 1}
    /\ connections = 1 <=> dbPc = "write"
    /\ dbPc \in {"get", "task_done", "exited"} => connections = 0
    /\ Len(hist.got) <= Len(hist.put)
    /\ \A k \in 1..Len(hist.got) : hist.got[k] = hist.put[k]
    /\ storage = RowsAfter(Len(log))

\* C15 witness: the connection of the second write is open after a write
\* that met a fault and closed its own
C15_Witness ==
    /\ dbPc = "write"
    /\ connections = 1
    /\ Len(hist.got) = 2
    /\ Len(log) = 1
    /\ log[1].outcome = "Fault"
    /\ storage = <<>>

\* C6: the table never holds two rows with the same name: a write for a
\* name the table already holds is skipped, whatever save_to_db logged.
C6_NoDuplicateNames ==
    \A j, k \in 1..Len(storage) : j # k => storage[j].name # storage[k].name

\* C9: a product whose detail page could not be fetched is not dropped:
\* exactly one record for it was put on db_queue, with price_range and
\* median_price "N/A"; every record put is on db_queue, with db_worker or
\* through save_to_db; and the worker is not ended by the failure: workers
\* exit on sentinels only, and one that holds such a product is about to
\* call task_done and take the next.
C9_FailedFetchForwarded ==
    /\ \A i \in hist.failed :
           /\ Reached(i) = 1
           /\ \A k \in 1..Len(hist.put) :
                  hist.put[k].id = i =>
                      /\ hist.put[k].price_range = NA
                      /\ hist.put[k].median_price = NA
    /\ Len(hist.put) = (Len(db_queue) - StopsIn(db_queue))
                       + (IF dbPc \in {"save", "write"} THEN 1 ELSE 0)
                       + Len(log)
    /\ Cardinality({w \in Workers : wPc[w] = "exited"}) <= stopsPut
    /\ \A w \in Workers :
           wProduct[w] # NoProduct /\ wProduct[w].id \in hist.failed =>
               wPc[w] = "task_done"

\* C9 witness: the first record put on db_queue is for a product whose
\* fetch failed, it carries "N/A" twice, and a second product was
\* processed after it
C9_Witness ==
    /\ Len(hist.put) = 2
    /\ hist.put[1].id \in hist.failed
    /\ hist.put[1].price_range = NA
    /\ hist.put[1].median_price = NA
    /\ hist.put[2].id \notin hist.failed

\* main has left the `with ThreadPoolExecutor` block
DiscoveryOver == mainPc \notin {"init_db", "get_categories", "submit"}

\* the products of the subcategories a discovery task was submitted for
Discovered == {i \in Items : taskPc[ItemSub(i)] # "unsubmitted"}

\* C20: no product is put on product_queue after a sentinel. Every
\* discovery task has put all its products before the first worker is
\* started, so no worker, take or sentinel exists while discovery runs,
\* and a returned product_queue.join() means every discovered product has
\* been processed; and product_queue has no backpressure: while nothing is
\* taken it holds every product put so far, and it holds all discovered
\* products when the first worker is started.
C20_DiscoveryBeforeWorkers ==
    /\ ~DiscoveryOver =>
           /\ started = 0 /\ stopsPut = 0
           /\ \A w \in Workers : wPc[w] = "unstarted"
           /\ \A i \in Items : hist.deq[i] = 0
    /\ DiscoveryOver =>
           /\ \A s \in Subcats :
                  /\ taskPc[s] \in {"unsubmitted", "done"}
                  /\ taskPc[s] = "done" => taskIdx[s] = Len(ProductsOf(s))
           /\ hist.enq = Discovered
    /\ \A j, k \in 1..Len(product_queue) :
           j < k /\ product_queue[j] = STOP_SIGNAL =>
               product_queue[k] = STOP_SIGNAL
    /\ (\A i \in Items : hist.deq[i] = 0) =>
           Len(product_queue) - StopsIn(product_queue)
               = Cardinality(hist.enq)
    /\ mainPc = "start_threads" /\ started = 0 =>
           Len(product_queue) = Cardinality(Discovered)
    /\ ProductsJoined => \A i \in Discovered : Reached(i) = 1

\* C20 witness: the first worker is about to be started and product_queue
\* holds every product of the site, none taken
C20_Witness ==
    /\ mainPc = "start_threads"
    /\ started = 0
    /\ Discovered = Items
    /\ Len(product_queue) = NumItems
    /\ \A i \in Items : hist.deq[i] = 0

\* C13: when the categories cannot be enumerated at startup (the homepage
\* fetch fails and get_category_urls has nothing), the run aborts: no
\* product_worker and no db_worker is started, and main does not reach its
\* normal end, where it reports completion.
EnumerationFailed ==
    mainPc \notin {"init_db", "get_categories"} /\ categories = <<>>
C13_EnumerationFailureAborts ==
    EnumerationFailed =>
        /\ started = 0
        /\ \A w \in Workers : wPc[w] = "unstarted"
        /\ dbPc = "unstarted"
        /\ mainPc # "done"

----------------------------------------------------------------------------
(* Claims about the retry wrapper                                          *)

\* C2: when the transport raises RequestException `fails` times and then
\* succeeds, a call with fails < max_attempts returns the content after
\* fails retries and fails + 1 attempts; a call with fails >= max_attempts
\* returns None after max_attempts attempts; and no call ever makes more
\* than max_attempts attempts.
C2_RetryBudget ==
    retry.raises = "RequestException" /\ retry.pc # "idle" =>
        /\ retry.calls <= retry.max_attempts
        /\ retry.pc = "returned" /\ retry.fails < retry.max_attempts =>
               /\ retry.result = retry.content
               /\ retry.attempts = retry.fails
               /\ retry.calls = retry.fails + 1
        /\ retry.pc = "returned" /\ retry.fails >= retry.max_attempts =>
               /\ retry.result = None
               /\ retry.calls = retry.max_attempts

\* C2 witness: fetch_page's own budget of 3, two failures, then the content
C2_Witness ==
    /\ retry.pc = "returned"
    /\ retry.raises = "RequestException"
    /\ retry.max_attempts = 3
    /\ retry.fails = 2
    /\ retry.calls = 3
    /\ retry.result = retry.content

\* C18: when a call of the wrapper has returned, it logged one warning for
\* each retry it performed (each call of func after a failed one) and
\* waited the delay once before each of them and at no other time; it
\* logged the error once if the budget ran out, and not at all if func
\* returned.
C18_LogsMatchRetries ==
    retry.raises = "RequestException" /\ retry.pc = "returned" =>
        /\ retry.warnings = retry.calls - 1
        /\ retry.sleeps = retry.calls - 1
        /\ retry.errors = (IF retry.result = None THEN 1 ELSE 0)

\* C12: a programmer error such as a malformed URL is not retried: the
\* wrapper makes exactly one attempt, logs no retry and waits no retry
\* delay, and the error leaves the wrapper instead of becoming None.
C12_MalformedUrlNotRetried ==
    retry.raises = "MissingSchema" /\ retry.fails > 0 =>
        /\ retry.calls <= 1
        /\ retry.warnings = 0
        /\ retry.sleeps = 0
        /\ retry.pc # "returned"

----------------------------------------------------------------------------
(* Claims about pagination                                                 *)

\* the page has product cards
HasCards(content) == content # None /\ content.cards > 0

\* the pages of the source at which pagination has to stop: an empty page
\* or a failed fetch
StopPages(source) == {p \in DOMAIN source : ~HasCards(source[p])}

\* the first of them
FirstStop(source) ==
    CHOOSE p \in StopPages(source) : \A q \in StopPages(source) : p <= q

RECURSIVE ProductsOfPages(_, _)
\* the products of pages 1..n of the source, in order
ProductsOfPages(source, n) ==
    IF n = 0 THEN <<>>
    ELSE ProductsOfPages(source, n - 1) \o
         [c \in 1..source[n].cards |-> <<n, c>>]

\* C8: the pages are requested in the order 1, 2, 3, ... without a gap;
\* when pages 1..N have cards and page N+1 is empty, or the fetch of page
\* N+1 fails, the call returns after requesting exactly pages 1..N+1, with
\* exactly the products of pages 1..N.
C8_Pagination ==
    pager.pc # "idle" =>
        /\ pager.requests = [k \in 1..Len(pager.requests) |-> k]
        /\ StopPages(pager.source) # {} =>
               LET stop == FirstStop(pager.source) IN
                   /\ Len(pager.requests) <= stop
                   /\ pager.pc = "returned" =>
                          /\ Len(pager.requests) = stop
                          /\ pager.products =
                                 ProductsOfPages(pager.source, stop - 1)

\* C8 witness: pages 1 and 2 have cards, page 3 is empty, the call returned
C8_Witness ==
    /\ pager.pc = "returned"
    /\ HasCards(pager.source[1])
    /\ HasCards(pager.source[2])
    /\ pager.source[3] = [cards |-> 0]
    /\ pager.requests = <<1, 2, 3>>
    /\ Len(pager.products) >= 2

\* the cap on the pages of one call that the claim speaks of, taken as
\* large as the stub source is long
HardCap == MaxPage

\* C17: pagination always ends, even on a source whose pages never come up
\* empty and never fail: a call that has fetched HardCap pages has returned.
C17_PaginationCapped ==
    Len(pager.requests) >= HardCap => pager.pc = "returned"

----------------------------------------------------------------------------
(* Claims about the writer run twice                                       *)

\* the second run of the writer is over
SecondRunOver == writer.run = 2 /\ dbPc = "exited"

\* C7: when the writer has run twice over the same records and sqlite
\* raised no fault, the table after the second run is the table after the
\* first, and every save_to_db of the second run ended in the
\* already-exists outcome.
C7_SecondRunInsertsNothing ==
    SecondRunOver /\ OutcomesIn(log, "Fault") = 0 =>
        /\ storage = writer.first
        /\ \A k \in (writer.logged + 1)..Len(log) :
               log[k].outcome = "AlreadyExists"

----------------------------------------------------------------------------
(* Claims about _split_links                                               *)

RECURSIVE Concat(_, _)
\* chunks[1] \o ... \o chunks[n]
Concat(chunks, n) ==
    IF n = 0 THEN <<>> ELSE Concat(chunks, n - 1) \o chunks[n]

\* the least c with c * n >= len: the ceiling of len / n
CeilingOf(len, n) == CHOOSE c \in 0..len : c * n >= len /\ (c = 0 \/ (c - 1) * n < len)

RECURSIVE LenBefore(_, _)
\* the number of links in the chunks before chunk i
LenBefore(chunks, i) ==
    IF i = 1 THEN 0 ELSE LenBefore(chunks, i - 1) + Len(chunks[i - 1])

\* C3: _split_links gives exactly num_processes chunks, none longer than
\* the ceiling of len / num_processes, chunk i holding the links that
\* follow those of chunks 1..i-1 in the input, so that the chunks in order
\* make up the input; 10 links over 3 processes give sizes 4, 4, 2.
C3_SplitLinks ==
    mgrPc = "constructed" =>
        /\ Len(link_chunks) = num_processes
        /\ \A i \in 1..num_processes :
               /\ Len(link_chunks[i]) <= CeilingOf(Len(book_links),
                                                   num_processes)
               /\ \A k \in 1..Len(link_chunks[i]) :
                      /\ LenBefore(link_chunks, i) + k <= Len(book_links)
                      /\ link_chunks[i][k] =
                             book_links[LenBefore(link_chunks, i) + k]
        /\ Concat(link_chunks, num_processes) = book_links
        /\ Len(book_links) = 10 /\ num_processes = 3 =>
               [i \in 1..3 |-> Len(link_chunks[i])] = <<4, 4, 2>>

\* C3 witness: 10 links were split over 3 processes
C3_Witness ==
    /\ mgrPc = "constructed"
    /\ Len(book_links) = 10
    /\ num_processes = 3
    /\ Len(link_chunks) = 3

----------------------------------------------------------------------------
(* Claims about the process-parallel variant                               *)

RECURSIVE Occurrences(_, _)
\* how often x occurs in the sequence q
Occurrences(q, x) ==
    IF q = <<>> THEN 0
    ELSE (IF Head(q) = x THEN 1 ELSE 0) + Occurrences(Tail(q), x)

RECURSIVE TotalLen(_, _)
\* Len(batches[1]) + ... + Len(batches[n])
TotalLen(batches, n) ==
    IF n = 0 THEN 0 ELSE TotalLen(batches, n - 1) + Len(batches[n])

\* every worker process ran to completion
AllExited == \A p \in Procs : pPc[p] = "exited"

\* C4: run() returns only when num_processes end-markers have been read;
\* when every worker ran to completion, whatever the order in which their
\* messages arrived, the result holds every record of every worker's batch
\* exactly once and nothing else; when no scrape failed, it is as long as
\* the input.
C4_CollectAll ==
    mgrPc = "returned" =>
        /\ stop_signals = num_processes
        /\ AllExited =>
               /\ \A p \in Procs : \A k \in 1..Len(pData[p]) :
                      Occurrences(results, pData[p][k]) = 1
               /\ Len(results) = TotalLen(pData, num_processes)
               /\ (\A p \in Procs : Len(pData[p]) = Len(link_chunks[p])) =>
                      Len(results) = Len(book_links)

\* C4 witness: two workers, three links, no scrape failed, and the second
\* worker's batch arrived before the first's
C4_Witness ==
    /\ mgrPc = "returned"
    /\ num_processes = 2
    /\ Len(book_links) = 3
    /\ AllExited
    /\ Len(results) = 3
    /\ results[1] = ScrapeBook(3, TRUE)

\* a worker process ended on an exception, without its batch and end-marker
SomeCrashed == \E p \in Procs : pPc[p] = "crashed"

\* run() has returned with the batches of the workers that completed
ReturnedWithSiblings ==
    /\ mgrPc = "returned"
    /\ \A p \in Procs : pPc[p] = "exited" =>
           \A k \in 1..Len(pData[p]) : Occurrences(results, pData[p][k]) = 1

\* C10: when a worker process has ended on an exception, run() still
\* returns in the end, with the batches of the other workers.
C10_RunReturnsDespiteCrash == SomeCrashed ~> ReturnedWithSiblings

\* C11: an exception inside one product_worker does not take down the
\* pipeline: once a worker has ended on an exception, main's shutdown
\* (product_queue.join(), the sentinels, the thread joins, db_queue.join())
\* still completes in the end.
SomeWorkerRaised == \E w \in Workers : wPc[w] = "crashed"
C11_ShutdownDespiteWorkerException == SomeWorkerRaised ~> (mainPc = "done")

\* C16: an item whose scrape fails still gives one record in its worker's
\* batch: the batch holds one record for each link the worker is through
\* with, so a finished batch is as long as the worker's chunk.
C16_FailedItemYieldsRecord ==
    \A p \in Procs :
        /\ Len(pData[p]) = pIdx[p]
        /\ pPc[p] \in {"put_results", "put_stop", "exited"} =>
               Len(pData[p]) = Len(link_chunks[p])

\* how many batches the sequence q holds
BatchesIn(q) == Len(q) - StopsIn(q)

\* no prefix of q holds more end-markers than batches: each end-marker has
\* a batch of its own ahead of it
RECURSIVE BatchAheadOfStop(_)
BatchAheadOfStop(q) ==
    \/ q = <<>>
    \/ /\ StopsIn(q) <= BatchesIn(q)
       /\ BatchAheadOfStop(SubSeq(q, 1, Len(q) - 1))

\* run() has not called collect_data yet
BeforeCollect == mgrPc \in {"start", "join"}

\* the worker process p is running and can take its next step
CanStep(p) ==
    ENABLED (ProcLaunch(p) \/ ProcScrape(p) \/ ProcClose(p)
             \/ ProcPutResults(p) \/ ProcPutStop(p))

\* run() joins every worker before it reads the queue, and the workers'
\* puts wait for no reader
C19_JoinBeforeRead ==
    /\ BeforeCollect =>
           /\ all_data = <<>> /\ stop_signals = 0
           /\ BatchesIn(mqueue) =
                  Cardinality({p \in Procs : pPc[p] \in {"put_stop", "exited"}})
           /\ StopsIn(mqueue) = Cardinality({p \in Procs : pPc[p] = "exited"})
           /\ BatchAheadOfStop(mqueue)
    /\ ~BeforeCollect => \A p \in Procs : pPc[p] \in {"exited", "crashed"}
    /\ \A p \in Procs :
           pPc[p] \in {"launch", "scrape", "put_results", "put_stop"} =>
               CanStep(p)
    /\ AllExited /\ mgrPc = "join" =>
           /\ BatchesIn(mqueue) = num_processes
           /\ StopsIn(mqueue) = num_processes
           /\ \A p \in Procs : \E k \in 1..Len(mqueue) :
                  mqueue[k] = [batch |-> pData[p]]
           /\ ENABLED (MgrJoin \/ MgrJoined)
    /\ AllExited /\ mgrPc = "returned" => terminated = {}

\* C19: run() joins every worker before it reads the queue, and this
\* cannot deadlock: a worker's two puts never wait for a reader, so when
\* every worker ran to completion every join returns, the queue then holds
\* num_processes batches and num_processes end-markers, each worker's batch
\* ahead of its end-marker, run() returns in the end, and it terminates no
\* process by force.
C19_JoinThenCollect ==
    /\ []C19_JoinBeforeRead
    /\ AllExited ~> (mgrPc = "returned")

\* C19 witness: two workers ran to completion with their puts interleaved;
\* run() is through its joins and has read nothing yet
C19_Witness ==
    /\ mgrPc = "collect"
    /\ num_processes = 2
    /\ AllExited
    /\ Len(mqueue) = 4
    /\ mqueue[1] # STOP_SIGNAL /\ mqueue[2] # STOP_SIGNAL
    /\ Len(book_links) = MaxLinks

====
